---- MODULE Spec2Model ----
(***************************************************************************)
(* Per-unit payload cache and synchronisation engine of public/input.js:   *)
(* the unit-mapping resolver, the three payload tiers (in-memory cache,    *)
(* localStorage cache, remote records), the unit switch controller and the *)
(* autosave pipeline.                                                      *)
(*                                                                         *)
(* JavaScript runs every handler to completion, so one action is one       *)
(* handler run: from an event (click, timer, network response) to the next *)
(* suspension point (a fetch in flight, a timer) of the code it runs.      *)
(* A response is delivered when its body has been read: between            *)
(* `await fetch(..)` and `await res.json()` the code reads no shared state.*)
(***************************************************************************)
EXTENDS Integers, Sequences, FiniteSets, TLC

VARIABLES
  pc,             \* page lifecycle: "script", "ensure_get", "ensure_init", "ensure_refetch", "ready"
  currentUnit,    \* window.currentUnit
  lsCurrentUnit,  \* localStorage['currentUnit']
  lsBlendIds,     \* localStorage[BLEND_IDS_KEY]: the local fallback unit -> id map
  lsPayload,      \* localStorage[PAYLOAD_CACHE_KEY]: the durable payload cache
  serverUnitMap,  \* window.serverUnitMap
  mem,            \* inMemoryPayloadCache
  flushH,         \* _deferredPayloadWriteTimer is non-null
  flushN,         \* number of pending flush timeouts
  debounceN,      \* number of pending debounce timeouts (closure variable t of debounce)
  attached,       \* attachAutosaveListenersOnce._done
  attachN,        \* number of pending setTimeout(attachAutosaveListenersOnce, 120)
  form,           \* the DOM form fields collectFormData reads
  coalRow,        \* one row's coal inputs in detail: the row's select and its 8 hidden cells
  coalField,      \* the coal field collectFormData last made of that row
  timers,         \* what the .timers-input displays show
  totals,         \* what the .total-inputs displays show
  alerted,        \* the last alert() shown, "none" before the first
  saves,          \* explicit saves (saveToServer) in flight
  now,            \* Date.now()
  tasks,          \* asynchronous operations in flight
  srvUnits,       \* remote: the unit -> record id mapping (GET /units)
  srvBlend,       \* remote: record id -> payload (GET /blend/:id)
  nsw,            \* number of switch requests made so far (names the switches)
  fails,          \* number of network failures injected so far
  edits,          \* number of user edit events so far
  nsv,            \* number of explicit saves requested so far
  lim,            \* how many switches, edits, failures and clock ticks the environment makes (fixed at Init)
  h               \* history (ghost) variables, a record; see HInit

vars == << pc, currentUnit, lsCurrentUnit, lsBlendIds, lsPayload, serverUnitMap, mem,
           flushH, flushN, debounceN, attached, attachN, form,
           coalRow, coalField, timers, totals, alerted, saves, now,
           tasks, srvUnits, srvBlend, nsw, fails, edits, nsv, lim, h >>

(***************************************************************************)
(* Bounds of the model.                                                    *)
(***************************************************************************)
MaxSwitches == 2   \* user switch requests after page load
MaxEdits == 2      \* user edit events
MaxNow == 1        \* clock ticks (distinct Date.now() values minus one)
MaxFails == 3      \* injected network failures
MaxSaves == 2      \* clicks on the save button
MaxCoal == 2       \* distinct coals a row's inputs may hold

(***************************************************************************)
(* Data.                                                                   *)
(***************************************************************************)
MaxUnit == 3
Units == 1..MaxUnit
\* Keys of the per-unit objects: the units, and the values around their
\* range that a stale persisted selection or a caller of window.setCurrentUnit
\* may bring.
Keys == -1..(MaxUnit + 1)
\* Number(u) of an argument that is not numeric.
NaN == -99
\* The numbers that the || of JavaScript skips.
Falsy(n) == n = 0 \/ n = NaN
NoId == 0
\* Record ids: those POST /units/init gives the units, then those POST /blend
\* gives the records that saves create.
Ids == 1..(MaxUnit + MaxSaves)

\* A Payload (collectFormData's result), reduced to: main = the rows, flows,
\* generation and bunkerCapacity fields; caps = the 8 per-bunker capacities;
\* ts = the timestamp. None is the absent entry (undefined).
None == [main |-> 0, caps |-> 0, ts |-> -1]
EmptyMap == [k \in Keys |-> None]
NoIds == [k \in Keys |-> NoId]

SrvMain(u) == 10 + u
OldMain(u) == 20 + u
EditMain(k, u) == 10 * (2 + k) + u

\* JSON.stringify(x || {}) as used for the comparison in backgroundFetch: the
\* absent entry and the empty object serialize alike, a payload by its fields
\* in collectFormData's key order.
Stringify(p) == IF p = None THEN << >> ELSE << p.main, p.ts, p.caps >>

\* readPayloadCache: the parsed durable cache, {} when absent or corrupt.
readPayloadCache(ls) == IF ls.ok THEN ls.m ELSE EmptyMap

\* The coal inputs of a row: the row's select (coalName<r>) and the hidden
\* input of each mill (coal_cell_r<r>_m<m>); NoCoal is the empty string.
NumMills == 8
Mills == 0..(NumMills - 1)
NoCoal == 0
Coals == NoCoal..MaxCoal
EmptyRow == [global |-> NoCoal, cells |-> [m \in Mills |-> NoCoal]]
NoField == [kind |-> "none", value |-> NoCoal, map |-> [m \in Mills |-> NoCoal]]

\* getCellCoalId(row, mill), lines 570-577: the cell's value, else the row's
\* select, else ''.
getCellCoalId(row, m) ==
  IF row.cells[m] # NoCoal THEN row.cells[m] ELSE row.global

\* A variant that takes any filled mill for a per-cell selection.
rowCoalFieldOfAnyCell(row) ==
  LET anyPerCell == \E m \in Mills : getCellCoalId(row, m) # NoCoal
  IN IF anyPerCell
       THEN [kind |-> "map", value |-> NoCoal,
             map |-> [m \in Mills |-> getCellCoalId(row, m)]]
       ELSE [kind |-> "string", value |-> row.global,
             map |-> [m \in Mills |-> NoCoal]]

\* The coal field of a row in collectFormData (lines 631-642): perCellMap,
\* which has a key for each mill with a coal (NoCoal: no key), when some
\* mill's coal is not the row's select; else the select's value.
rowCoalField(row) ==
  LET anyPerCell == \E m \in Mills : LET cid == getCellCoalId(row, m)
                                     IN cid # NoCoal /\ cid # row.global
  IN IF anyPerCell
       THEN [kind |-> "map", value |-> NoCoal,
             map |-> [m \in Mills |-> getCellCoalId(row, m)]]
       ELSE [kind |-> "string", value |-> row.global,
             map |-> [m \in Mills |-> NoCoal]]

collectFormData(f, t) == [main |-> f.main, caps |-> f.caps, ts |-> t]

FormOf(p) == [main |-> p.main, caps |-> p.caps]
EmptyForm == [main |-> 0, caps |-> 0]

(***************************************************************************)
(* The client state as one record, so that the synchronous functions of    *)
(* input.js compose as operators from state to state.                      *)
(***************************************************************************)
Cur == [cu |-> currentUnit, lsCu |-> lsCurrentUnit, lsIds |-> lsBlendIds,
        lsP |-> lsPayload, smap |-> serverUnitMap, mem |-> mem, fH |-> flushH,
        fN |-> flushN, dN |-> debounceN, att |-> attached, aN |-> attachN,
        form |-> form, row |-> coalRow, coalField |-> coalField,
        timers |-> timers, totals |-> totals, alerted |-> alerted, saves |-> saves,
        tasks |-> tasks, now |-> now, h |-> h]

Commit(s) ==
  /\ currentUnit' = s.cu
  /\ lsCurrentUnit' = s.lsCu
  /\ lsBlendIds' = s.lsIds
  /\ lsPayload' = s.lsP
  /\ serverUnitMap' = s.smap
  /\ mem' = s.mem
  /\ flushH' = s.fH
  /\ flushN' = s.fN
  /\ debounceN' = s.dN
  /\ attached' = s.att
  /\ attachN' = s.aN
  /\ form' = s.form
  /\ coalRow' = s.row
  /\ coalField' = s.coalField
  /\ timers' = s.timers
  /\ totals' = s.totals
  /\ alerted' = s.alerted
  /\ saves' = s.saves
  /\ tasks' = s.tasks
  /\ now' = s.now
  /\ h' = s.h

Min(a, b) == IF a < b THEN a ELSE b

\* History variables: they record what happened and are never read by the
\* operations.
NoPrev == [valid |-> FALSE, from |-> 0, snap |-> None, threw |-> FALSE]
HInit == [rendered |-> {},   \* the switches whose instant render has run
          prev |-> NoPrev,   \* the switch request just made, if nothing happened since:
                             \* the unit it left, the snapshot it stored for that unit,
                             \* and whether taking the snapshot threw
          events |-> 0,      \* input events of the current or last debounce burst (capped at 2)
          calls |-> 0,       \* schedulePersistPayloadCache calls of the current or last
                             \* flush window (capped at 2)
          ens |-> [n |-> 0, ret |-> NoIds],
                             \* ensureServerUnitMapping: how many calls have returned, and
                             \* what the last one returned
          listeners |-> 0,   \* how many times the capture listeners were added (capped at 2)
          created |-> {},    \* the units for which a save has created a record
          saved |-> [unit |-> 0, cu |-> 0],
                             \* the last save completed: its unit, and the active unit
                             \* when it completed
          boot |-> None]     \* the memory entry the first activation of the page load
                             \* stored for the unit it found active

(***************************************************************************)
(* Deferred durable write and autosave (input.js 133-176).                 *)
(***************************************************************************)
\* A variant without the guard of line 136: every call sets a timeout.
schedulePersistPayloadCacheUnguarded(s) ==
  [s EXCEPT !.fH = TRUE, !.fN = s.fN + 1, !.h.calls = Min(@ + 1, 2)]

schedulePersistPayloadCache(s) ==
  IF s.fH
    THEN [s EXCEPT !.h.calls = Min(@ + 1, 2)]
    ELSE [s EXCEPT !.fH = TRUE, !.fN = s.fN + 1, !.h.calls = 1]

\* A variant without the clearTimeout of line 151: every event adds a timeout.
debouncedTransientSaveKeepingTimer(s) ==
  [s EXCEPT !.dN = @ + 1,
            !.h.events = IF s.dN = 0 THEN 1 ELSE Min(s.h.events + 1, 2)]

\* The function debounce() returns: clearTimeout(t), then a new timeout.
debouncedTransientSave(s) ==
  [s EXCEPT !.dN = 1,
            !.h.events = IF s.dN = 0 THEN 1 ELSE Min(s.h.events + 1, 2)]

\* A variant without the _done flag of lines 168-169.
attachAutosaveListenersAgain(s) ==
  [s EXCEPT !.att = TRUE, !.h.listeners = Min(@ + 1, 2)]

\* attachAutosaveListenersOnce (lines 167-175).
attachAutosaveListenersOnce(s) ==
  IF s.att THEN s
           ELSE [s EXCEPT !.att = TRUE, !.h.listeners = Min(@ + 1, 2)]

\* An input/change event reaching document: the listeners run when attached.
DispatchInput(s) == IF s.att THEN debouncedTransientSave(s) ELSE s

saveTransientToMemory(s) ==
  schedulePersistPayloadCache(
    [s EXCEPT !.mem[s.cu] = collectFormData(s.form, s.now)])

(***************************************************************************)
(* Form population (input.js 321-477).                                     *)
(***************************************************************************)
\* Resets the rows, flows, generation and bunkerCapacity; the per-bunker
\* capacity inputs are not among the elements it selects. Each cleared
\* percentage and flow input dispatches a bubbling input event. The totals
\* are blanked (line 360) and the timer displays set to '--' (line 361);
\* before the first clear both show what the page put there ("page"). The
\* display hooks called last (lines 369-372) are defined by the page, not by
\* this script.
clearFormForUnitUI(s) ==
  DispatchInput([s EXCEPT !.form = [main |-> 0, caps |-> s.form.caps],
                          !.timers = "--",
                          !.totals = ""])

\* Sets every field from the payload (a falsy payload clears the form); each
\* percentage and flow input set dispatches a bubbling input event.
populateFormFromPayload(s, p) ==
  IF p = None
    THEN clearFormForUnitUI(s)
    ELSE DispatchInput([s EXCEPT !.form = [main |-> p.main, caps |-> p.caps]])

(***************************************************************************)
(* Unit-mapping resolver (input.js 46-97).                                 *)
(***************************************************************************)
\* What fetchServerUnitMap returns once GET /units has answered: the fetched
\* map, or {} when the request rejected or answered a non-success status.
fetchServerUnitMapResult(resp) == IF resp = "ok" THEN srvUnits ELSE NoIds

\* A variant that merges the fetched map into the fallback map.
fetchServerUnitMapMerging(s, resp) ==
  IF resp = "ok"
    THEN [s EXCEPT !.lsIds = [k \in Keys |-> IF srvUnits[k] # NoId THEN srvUnits[k]
                                                                  ELSE s.lsIds[k]],
                   !.smap = srvUnits]
    ELSE s

\* A variant that resets both maps when the request fails.
fetchServerUnitMapResetting(s, resp) ==
  IF resp = "ok" THEN [s EXCEPT !.lsIds = srvUnits, !.smap = srvUnits]
                 ELSE [s EXCEPT !.lsIds = NoIds, !.smap = NoIds]

\* fetchServerUnitMap from the answer of GET /units on: a success replaces
\* the fallback map and the in-process map by the fetched one.
fetchServerUnitMap(s, resp) ==
  IF resp = "ok" THEN [s EXCEPT !.lsIds = srvUnits, !.smap = srvUnits] ELSE s

\* getBlendIdForUnit, line 90: the id of the in-process map, if any.
getBlendIdCached(s, unit) == s.smap[unit]

\* A variant without the fallback of lines 95-96.
getBlendIdWithoutFallback(s, unit) == s.smap[unit]

\* getBlendIdForUnit, lines 93-96: after the map fetch, the refreshed map's
\* id, else the local fallback map's.
getBlendIdAfterFetch(s, unit) ==
  IF s.smap[unit] # NoId THEN s.smap[unit] ELSE s.lsIds[unit]

Task(sw, kind, unit, stage, id) ==
  [sw |-> sw, kind |-> kind, unit |-> unit, stage |-> stage, id |-> id]

\* The call getBlendIdForUnit(unit) made by an async function (sw, kind): it
\* returns at once with the cached id, and the caller goes on to request the
\* record, or it requests GET /units and the caller waits for it.
CallGetBlendId(s, sw, kind, unit) ==
  LET id == getBlendIdCached(s, unit) IN
  IF id # NoId
    THEN [s EXCEPT !.tasks = @ \cup {Task(sw, kind, unit, "blend", id)}]
    ELSE [s EXCEPT !.tasks = @ \cup {Task(sw, kind, unit, "map", NoId)}]

(***************************************************************************)
(* Unit switch controller (input.js 179-275, 485-567).                     *)
(***************************************************************************)
\* u = Number(u) || 1; if (u < 1) u = 1; if (u > 3) u = 3
Clamp(raw) ==
  LET u == IF Falsy(raw) THEN 1 ELSE raw
  IN IF u < 1 THEN 1 ELSE IF u > MaxUnit THEN MaxUnit ELSE u

\* A variant that leaves the form as it is when no tier has a payload.
InstantRenderKeepingForm(s, u, sw) ==
  LET s1 == IF s.mem[u] # None
              THEN populateFormFromPayload(s, s.mem[u])
              ELSE IF s.lsP.ok /\ s.lsP.m[u] # None
                THEN populateFormFromPayload([s EXCEPT !.mem[u] = s.lsP.m[u]], s.lsP.m[u])
                ELSE s
  IN [s1 EXCEPT !.h.rendered = @ \cup {sw}]

\* Instant render of setCurrentUnitFast (lines 197-218).
InstantRender(s, u, sw) ==
  LET s1 == IF s.mem[u] # None
              THEN populateFormFromPayload(s, s.mem[u])
              ELSE IF s.lsP.ok /\ s.lsP.m[u] # None
                THEN populateFormFromPayload([s EXCEPT !.mem[u] = s.lsP.m[u]], s.lsP.m[u])
                ELSE clearFormForUnitUI(s)
  IN [s1 EXCEPT !.h.rendered = @ \cup {sw}]

\* prefetchOtherUnits(current): a 240 ms timer, then its callback.
prefetchOtherUnits(s, current, sw) ==
  [s EXCEPT !.tasks = @ \cup {Task(sw, "pre", current, "timer", NoId)}]

\* A variant that starts the background fetch and leaves the form to it.
setCurrentUnitFastWithoutRender(s, raw, sw) ==
  LET u  == Clamp(raw)
      s1 == saveTransientToMemory(s)
      s2 == [s1 EXCEPT !.cu = u, !.lsCu = u]
      s4 == CallGetBlendId(s2, sw, "bg", u)
      s5 == prefetchOtherUnits(s4, u, sw)
  IN [s5 EXCEPT !.aN = @ + 1,
                !.h.prev = [valid |-> TRUE, from |-> s.cu, snap |-> s1.mem[s.cu],
                            threw |-> FALSE]]

\* A variant that persists the argument as it came.
setCurrentUnitFastPersistingRaw(s, raw, sw) ==
  LET u  == Clamp(raw)
      s1 == saveTransientToMemory(s)
      s2 == [s1 EXCEPT !.cu = u, !.lsCu = raw]
      s3 == InstantRender(s2, u, sw)
      s4 == CallGetBlendId(s3, sw, "bg", u)
      s5 == prefetchOtherUnits(s4, u, sw)
  IN [s5 EXCEPT !.aN = @ + 1,
                !.h.prev = [valid |-> TRUE, from |-> s.cu, snap |-> s1.mem[s.cu],
                            threw |-> FALSE]]

\* A variant that takes the snapshot after the active unit has changed.
setCurrentUnitFastSnapshotAfterSelect(s, raw, sw) ==
  LET u  == Clamp(raw)
      s1 == saveTransientToMemory([s EXCEPT !.cu = u, !.lsCu = u])
      s3 == InstantRender(s1, u, sw)
      s4 == CallGetBlendId(s3, sw, "bg", u)
      s5 == prefetchOtherUnits(s4, u, sw)
  IN [s5 EXCEPT !.aN = @ + 1,
                !.h.prev = [valid |-> TRUE, from |-> s.cu, snap |-> s1.mem[s.cu],
                            threw |-> FALSE]]

\* setCurrentUnitFast(u), up to its return: snapshot, select, instant render,
\* the background fetch and the prefetch started, and the timeout of line 248
\* set.
setCurrentUnitFast(s, raw, sw) ==
  LET u  == Clamp(raw)
      s1 == saveTransientToMemory(s)
      s2 == [s1 EXCEPT !.cu = u, !.lsCu = u]
      s3 == InstantRender(s2, u, sw)
      s4 == CallGetBlendId(s3, sw, "bg", u)
      s5 == prefetchOtherUnits(s4, u, sw)
  IN [s5 EXCEPT !.aN = @ + 1,
                !.h.prev = [valid |-> TRUE, from |-> s.cu, snap |-> s1.mem[s.cu],
                            threw |-> FALSE]]

\* setCurrentUnitFast(u) when collectFormData throws inside
\* saveTransientToMemory: the catch of line 163 swallows the error before
\* the memory tier is written, and the switch goes on.
setCurrentUnitFastSnapshotThrows(s, raw, sw) ==
  LET u  == Clamp(raw)
      s2 == [s EXCEPT !.cu = u, !.lsCu = u]
      s3 == InstantRender(s2, u, sw)
      s4 == CallGetBlendId(s3, sw, "bg", u)
      s5 == prefetchOtherUnits(s4, u, sw)
  IN [s5 EXCEPT !.aN = @ + 1,
                !.h.prev = [valid |-> TRUE, from |-> s.cu, snap |-> None,
                            threw |-> TRUE]]

\* loadUnitData(unit), up to its first await (lines 485-499).
loadUnitData(s, raw, sw) ==
  LET unit == IF Falsy(raw) THEN s.cu ELSE raw   \* Number(unit) || window.currentUnit || 1
      cache == readPayloadCache(s.lsP)
      s1 == IF cache[unit] # None
              THEN populateFormFromPayload(s, cache[unit])
              ELSE s
  IN CallGetBlendId(s1, sw, "load", unit)

\* window.setCurrentUnit as wrapped at lines 559-567: the fast switch, then
\* loadUnitData with the same (raw) argument.
setCurrentUnit(s, raw, sw) ==
  loadUnitData(setCurrentUnitFast(s, raw, sw), raw, sw)

\* backgroundFetch of setCurrentUnitFast, from the answer of GET /blend/:id on
\* (lines 227-240).
backgroundFetchDone(s, t, resp) ==
  LET payload == srvBlend[t.id] IN
  IF resp # "ok" THEN s
  ELSE IF Stringify(s.mem[t.unit]) # Stringify(payload)
    THEN schedulePersistPayloadCache(
           populateFormFromPayload([s EXCEPT !.mem[t.unit] = payload], payload))
    ELSE s

\* loadUnitData when getBlendIdForUnit found no id (lines 501-511).
loadUnitDataNoId(s, t) ==
  IF readPayloadCache(s.lsP)[t.unit] = None
    THEN clearFormForUnitUI(s)
    ELSE s

\* writePayloadCache(obj): localStorage.setItem of the serialized object.
writePayloadCache(s, obj) == [s EXCEPT !.lsP = [ok |-> TRUE, m |-> obj]]

\* A variant that leaves a durable cache that does not parse as it is.
loadUnitDataDoneKeepingCorrupt(s, t, resp) ==
  LET cache == readPayloadCache(s.lsP)
      payload == srvBlend[t.id]
  IN CASE resp = "ok" ->
            LET s1 == populateFormFromPayload(s, payload)
                s2 == IF s.lsP.ok
                        THEN writePayloadCache(s1, [cache EXCEPT ![t.unit] = payload])
                        ELSE s1
            IN [s2 EXCEPT !.mem[t.unit] = payload]
       [] resp = "notok" ->
            IF cache[t.unit] = None
              THEN clearFormForUnitUI(s)
              ELSE s
       [] OTHER ->
            IF cache[t.unit] # None
              THEN populateFormFromPayload(s, cache[t.unit])
              ELSE clearFormForUnitUI(s)

\* loadUnitData from the answer of GET /blend/:id on (lines 514-554).
loadUnitDataDone(s, t, resp) ==
  LET cache == readPayloadCache(s.lsP)
      payload == srvBlend[t.id]
  IN CASE resp = "ok" ->
            LET s1 == populateFormFromPayload(s, payload)
                s2 == writePayloadCache(s1, [cache EXCEPT ![t.unit] = payload])
            IN [s2 EXCEPT !.mem[t.unit] = payload]
       [] resp = "notok" ->
            IF cache[t.unit] = None
              THEN clearFormForUnitUI(s)
              ELSE s
       [] OTHER ->   \* the fetch rejected: the catch block
            IF cache[t.unit] # None
              THEN populateFormFromPayload(s, cache[t.unit])
              ELSE clearFormForUnitUI(s)

\* The loop of the prefetch callback (lines 259-272): the record requests it
\* starts, for the other units absent from the memory tier that have an id.
PrefetchTargets(s, current) ==
  { u \in Units : /\ u # current
                  /\ s.mem[u] = None
                  /\ (IF s.smap[u] # NoId THEN s.smap[u] ELSE s.lsIds[u]) # NoId }

prefetchStart(s, t) ==
  [s EXCEPT !.tasks = @ \cup
     { Task(t.sw, "pf", u, "blend",
            IF s.smap[u] # NoId THEN s.smap[u] ELSE s.lsIds[u])
       : u \in PrefetchTargets(s, t.unit) }]

\* A variant that also shows the prefetched payload.
prefetchDonePopulating(s, t, resp) ==
  IF resp = "ok"
    THEN schedulePersistPayloadCache(
           populateFormFromPayload([s EXCEPT !.mem[t.unit] = srvBlend[t.id]],
                                   srvBlend[t.id]))
    ELSE s

\* The .then of a prefetch request (lines 266-270).
prefetchDone(s, t, resp) ==
  IF resp = "ok"
    THEN schedulePersistPayloadCache([s EXCEPT !.mem[t.unit] = srvBlend[t.id]])
    ELSE s

(***************************************************************************)
(* The remote store. Its code is not part of the client: GET /units        *)
(* answers the mapping, GET /blend/:id the record, POST /units/init        *)
(* creates the missing mappings (each with an empty record) and answers    *)
(* the resulting map.                                                      *)
(***************************************************************************)
EmptyRecord == [main |-> 0, caps |-> 0, ts |-> 0]
SrvRecord(u) == [main |-> SrvMain(u), caps |-> 0, ts |-> 0]
OldRecord(u) == [main |-> OldMain(u), caps |-> 0, ts |-> 0]
AllMapped == [k \in Keys |-> IF k \in Units THEN k ELSE NoId]

\* Only unit 1 is mapped: an explicit save created its record on a page whose
\* POST /units/init had failed.
OnlyUnit1 == [k \in Keys |-> IF k = 1 THEN 1 ELSE NoId]

ServerInitUnits(m) == [k \in Keys |-> IF k \in Units /\ m[k] = NoId THEN k ELSE m[k]]
ServerInitBlend(m, b) ==
  [i \in Ids |-> IF i \in Units /\ m[i] = NoId /\ b[i] = None THEN EmptyRecord ELSE b[i]]

(***************************************************************************)
(* Initial state: the page's script has been evaluated (lines 1-176):      *)
(* window.currentUnit read from localStorage, the memory tier hydrated     *)
(* from the durable cache, nothing requested yet.                          *)
(***************************************************************************)
\* What localStorage holds when the page is opened: nothing (a first visit);
\* the selection, ids and payloads of an earlier visit; or a selection out of
\* range and a payload cache that does not parse.
Stored == { [unit |-> 1, ids |-> NoIds, cache |-> [ok |-> TRUE, m |-> EmptyMap]],
            [unit |-> 2, ids |-> AllMapped,
             cache |-> [ok |-> TRUE,
                        m |-> [k \in Keys |-> IF k \in Units THEN OldRecord(k) ELSE None]]],
            [unit |-> MaxUnit + 1, ids |-> NoIds, cache |-> [ok |-> FALSE, m |-> EmptyMap]] }

InitPage(l, stored, servers) ==
  /\ lim = l
  /\ pc = "script"
  /\ \E st \in stored :
       /\ lsCurrentUnit = st.unit
       /\ lsBlendIds = st.ids
       /\ lsPayload = st.cache
  /\ currentUnit = lsCurrentUnit
  /\ serverUnitMap = NoIds
  /\ mem = readPayloadCache(lsPayload)
  /\ flushH = FALSE
  /\ flushN = 0
  /\ debounceN = 0
  /\ attached = FALSE
  /\ attachN = 0
  /\ form = EmptyForm
  /\ timers = "page"
  /\ totals = "page"
  /\ alerted = "none"
  /\ saves = {}
  /\ now = 1
  /\ tasks = {}
  /\ \E m \in servers :
       /\ srvUnits = m
       /\ srvBlend = [i \in Ids |-> IF \E u \in Units : m[u] = i THEN SrvRecord(i)
                                                                ELSE None]
  /\ nsw = 0
  /\ fails = 0
  /\ edits = 0
  /\ nsv = 0
  /\ h = HInit

\* The row that the function specification of collectFormData varies is
\* empty on the page: form.main stands for the rows there.
InitFrom(l, stored, servers) ==
  /\ InitPage(l, stored, servers)
  /\ coalRow = EmptyRow
  /\ coalField = NoField

\* A page opened on one of the stored states above.
InitOf(l, servers) == InitFrom(l, Stored, servers)

\* The remote store maps every unit, or none.
InitWith(l) == InitOf(l, {AllMapped, NoIds})

\* Date.now() when a handler runs: the clock may have advanced since it was
\* last read (only collectFormData reads it).
Clock(s, d) == [s EXCEPT !.now = @ + d]
Advances == { d \in 0..1 : now + d <= 1 + lim.tk }

\* Every step but a switch request ends a run of consecutive switches.
Step(s) == Commit([s EXCEPT !.h.prev = NoPrev])

\* A failure of a request is injected at most MaxFails times.
Net(ok) ==
  /\ ~ok => fails < lim.fl
  /\ fails' = IF ok THEN fails ELSE fails + 1

(***************************************************************************)
(* Page lifecycle (lines 176, 868-878).                                    *)
(***************************************************************************)
DOMContentLoaded ==
  /\ pc = "script" /\ ~attached
  /\ Step(attachAutosaveListenersOnce(Cur))
  /\ UNCHANGED << pc, lim, srvUnits, srvBlend, nsw, fails, edits, nsv >>

\* The load handler up to the GET /units of ensureServerUnitMapping.
Load ==
  /\ pc = "script" /\ attached
  /\ pc' = "ensure_get"
  /\ Step(Cur)
  /\ UNCHANGED << lim, srvUnits, srvBlend, nsw, fails, edits, nsv >>

\* A variant that writes the created map to the fallback map only.
unitsInitDoneFallbackOnly(s, createdMap) == [s EXCEPT !.lsIds = createdMap]

\* ensureServerUnitMapping, lines 75-79: the map POST /units/init answered
\* becomes the in-process map and the fallback map.
unitsInitDone(s, createdMap) == [s EXCEPT !.smap = createdMap, !.lsIds = createdMap]

\* ensureServerUnitMapping returns map to its caller.
Returns(s, map) ==
  [s EXCEPT !.h.prev = NoPrev, !.h.ens = [n |-> @.n + 1, ret |-> map]]

\* The load handler after ensureServerUnitMapping: initUnitButtons calls
\* setCurrentUnit(window.currentUnit || 1), and line 877 calls it again.
LoadSwitches(s, d) ==
  LET s1 == setCurrentUnit(Clock(s, d), s.cu, 1)
      s2 == setCurrentUnit(s1, s1.cu, 2)
  IN [s2 EXCEPT !.h.boot = s1.h.prev.snap]

Responses == {"ok", "notok", "reject"}

\* GET /units answers inside ensureServerUnitMapping: the first fetch (line
\* 65), or the fetch made after POST /units/init answered a failure status
\* (line 73), whose result is returned to the load handler.
EnsureGet(resp) ==
  /\ pc \in {"ensure_get", "ensure_refetch"}
  /\ Net(resp = "ok")
  /\ LET s1 == fetchServerUnitMap(Cur, resp)
         map == fetchServerUnitMapResult(resp)
     IN IF pc = "ensure_refetch" \/ \A u \in Units : map[u] # NoId
          THEN /\ pc' = "ready" /\ nsw' = 2
               /\ \E d \in Advances : Commit(LoadSwitches(Returns(s1, map), d))
          ELSE /\ pc' = "ensure_init" /\ nsw' = nsw
               /\ Step(s1)
  /\ UNCHANGED << lim, srvUnits, srvBlend, edits, nsv >>

\* POST /units/init answers (lines 70-83).
EnsureInit(resp) ==
  /\ pc = "ensure_init"
  /\ Net(resp = "ok")
  /\ CASE resp = "ok" ->
            /\ srvUnits' = ServerInitUnits(srvUnits)
            /\ srvBlend' = ServerInitBlend(srvUnits, srvBlend)
            /\ pc' = "ready" /\ nsw' = 2
            /\ \E d \in Advances :
                 Commit(LoadSwitches(Returns(unitsInitDone(Cur, ServerInitUnits(srvUnits)),
                                             ServerInitUnits(srvUnits)), d))
       [] resp = "notok" ->
            /\ pc' = "ensure_refetch" /\ nsw' = nsw
            /\ Step(Cur)
            /\ UNCHANGED << srvUnits, srvBlend >>
       [] OTHER ->
            /\ pc' = "ready" /\ nsw' = 2
            /\ \E d \in Advances : Commit(LoadSwitches(Returns(Cur, NoIds), d))
            /\ UNCHANGED << srvUnits, srvBlend >>
  /\ UNCHANGED << lim, edits, nsv >>

(***************************************************************************)
(* User events.                                                            *)
(***************************************************************************)
\* The user acts on the page before it loads its data or once the requests of
\* the page load have been answered; from the first click on, at any time.
UserActs ==
  pc = "script" \/ (pc = "ready" /\ (nsw > 2 \/ \A t \in tasks : t.kind = "pre"))

\* A click on a unit button (initUnitButtons, line 116).
Switch(u) ==
  /\ pc = "ready" /\ UserActs /\ nsw < 2 + lim.sw
  /\ nsw' = nsw + 1
  /\ \E d \in Advances : Commit(setCurrentUnit(Clock(Cur, d), u, nsw + 1))
  /\ UNCHANGED << pc, lim, srvUnits, srvBlend, fails, edits, nsv >>

\* What a caller may pass to window.setCurrentUnit, as Number() sees it: a
\* unit, zero, a negative number, a number above the units, not a number.
RawArgs == Units \cup {0, -1, MaxUnit + 1, NaN}

\* A call of window.setCurrentUnit with any argument.
SwitchRequest(raw) ==
  /\ pc = "ready" /\ UserActs /\ nsw < 2 + lim.sw
  /\ nsw' = nsw + 1
  /\ \E d \in Advances : Commit(setCurrentUnit(Clock(Cur, d), raw, nsw + 1))
  /\ UNCHANGED << pc, lim, srvUnits, srvBlend, fails, edits, nsv >>

\* A click on a unit button while collectFormData throws.
SwitchSnapshotThrows(u) ==
  /\ pc = "ready" /\ UserActs /\ nsw < 2 + lim.sw
  /\ nsw' = nsw + 1
  /\ \E d \in Advances :
       Commit(loadUnitData(setCurrentUnitFastSnapshotThrows(Clock(Cur, d), u, nsw + 1),
                           u, nsw + 1))
  /\ UNCHANGED << pc, lim, srvUnits, srvBlend, fails, edits, nsv >>

EditKinds == {1, 2}

\* The user changes a row, flow, generation or capacity field: the field
\* changes and its input event bubbles to document.
EditMainField(k) ==
  /\ UserActs /\ edits < lim.ed
  /\ edits' = edits + 1
  /\ Step(DispatchInput([Cur EXCEPT !.form.main = EditMain(k, Clamp(currentUnit))]))
  /\ UNCHANGED << pc, lim, srvUnits, srvBlend, nsw, fails, nsv >>

\* The user changes a per-bunker capacity input.
EditCapsField ==
  /\ UserActs /\ edits < lim.ed
  /\ edits' = edits + 1
  /\ Step(DispatchInput([Cur EXCEPT !.form.caps = 1 - @]))
  /\ UNCHANGED << pc, lim, srvUnits, srvBlend, nsw, fails, nsv >>

(***************************************************************************)
(* Timers.                                                                 *)
(***************************************************************************)
\* The timeout of debounce (line 152) runs saveTransientToMemory.
DebounceFire ==
  /\ debounceN > 0
  /\ \E d \in Advances : Step(saveTransientToMemory(Clock([Cur EXCEPT !.dN = @ - 1], d)))
  /\ UNCHANGED << pc, lim, srvUnits, srvBlend, nsw, fails, edits, nsv >>

\* A variant whose callback leaves _deferredPayloadWriteTimer set.
FlushFireKeepingHandle ==
  /\ flushN > 0
  /\ Step([writePayloadCache(Cur, mem) EXCEPT !.fN = @ - 1])
  /\ UNCHANGED << pc, lim, srvUnits, srvBlend, nsw, fails, edits, nsv >>

\* The timeout of schedulePersistPayloadCache (lines 138-143).
FlushFire ==
  /\ flushN > 0
  /\ Step([writePayloadCache(Cur, mem) EXCEPT !.fH = FALSE, !.fN = @ - 1])
  /\ UNCHANGED << pc, lim, srvUnits, srvBlend, nsw, fails, edits, nsv >>

\* The timeout of prefetchOtherUnits (line 255): GET /units is requested. The
\* 240 ms pass once the reconciliations in flight have been answered.
PrefetchTimer(t) ==
  /\ t \in tasks /\ t.kind = "pre" /\ t.stage = "timer"
  /\ \A x \in tasks : x.kind \notin {"bg", "load"}
  /\ Step([Cur EXCEPT !.tasks = (@ \ {t}) \cup {[t EXCEPT !.stage = "map"]}])
  /\ UNCHANGED << pc, lim, srvUnits, srvBlend, nsw, fails, edits, nsv >>

\* A callback of setTimeout(attachAutosaveListenersOnce, 120) (line 248).
AttachTimer ==
  /\ attachN > 0
  /\ Step([attachAutosaveListenersOnce(Cur) EXCEPT !.aN = @ - 1])
  /\ UNCHANGED << pc, lim, srvUnits, srvBlend, nsw, fails, edits, nsv >>

(***************************************************************************)
(* Network responses.                                                      *)
(***************************************************************************)
Without(t) == [Cur EXCEPT !.tasks = @ \ {t}]

\* GET /units answers inside the getBlendIdForUnit called by a
\* backgroundFetch or by loadUnitData, and the caller goes on: with an id it
\* requests the record, without one backgroundFetch returns (line 224) and
\* loadUnitData takes lines 501-511.
MapResp(t, resp) ==
  /\ t \in tasks /\ t.kind \in {"bg", "load"} /\ t.stage = "map"
  /\ Net(resp = "ok")
  /\ LET s1 == fetchServerUnitMap(Without(t), resp)
         id == getBlendIdAfterFetch(s1, t.unit)
     IN Step(IF id # NoId
               THEN [s1 EXCEPT !.tasks = @ \cup {Task(t.sw, t.kind, t.unit, "blend", id)}]
               ELSE IF t.kind = "load" THEN loadUnitDataNoId(s1, t) ELSE s1)
  /\ UNCHANGED << pc, lim, srvUnits, srvBlend, nsw, edits, nsv >>

\* GET /units answers inside the prefetch callback.
PreMapResp(t, resp) ==
  /\ t \in tasks /\ t.kind = "pre" /\ t.stage = "map"
  /\ Net(resp = "ok")
  /\ Step(prefetchStart(fetchServerUnitMap(Without(t), resp), t))
  /\ UNCHANGED << pc, lim, srvUnits, srvBlend, nsw, edits, nsv >>

\* GET /blend/:id answers: a record that exists is answered with success.
BlendNet(t, resp) ==
  /\ resp = "ok" => srvBlend[t.id] # None
  /\ Net(resp = "ok")

BgBlendResp(t, resp) ==
  /\ t \in tasks /\ t.kind = "bg" /\ t.stage = "blend"
  /\ BlendNet(t, resp)
  /\ Step(backgroundFetchDone(Without(t), t, resp))
  /\ UNCHANGED << pc, lim, srvUnits, srvBlend, nsw, edits, nsv >>

LoadBlendResp(t, resp) ==
  /\ t \in tasks /\ t.kind = "load" /\ t.stage = "blend"
  /\ BlendNet(t, resp)
  /\ Step(loadUnitDataDone(Without(t), t, resp))
  /\ UNCHANGED << pc, lim, srvUnits, srvBlend, nsw, edits, nsv >>

PfBlendResp(t, resp) ==
  /\ t \in tasks /\ t.kind = "pf" /\ t.stage = "blend"
  /\ BlendNet(t, resp)
  /\ Step(prefetchDone(Without(t), t, resp))
  /\ UNCHANGED << pc, lim, srvUnits, srvBlend, nsw, edits, nsv >>

\* Everything but the answers to the GET /units of getBlendIdForUnit.
NextKnownIds ==
  \/ DOMContentLoaded
  \/ Load
  \/ \E resp \in Responses : EnsureGet(resp)
  \/ \E resp \in Responses : EnsureInit(resp)
  \/ \E u \in Units : Switch(u)
  \/ \E k \in EditKinds : EditMainField(k)
  \/ EditCapsField
  \/ DebounceFire
  \/ FlushFire
  \/ \E t \in tasks, resp \in Responses : BgBlendResp(t, resp)
  \/ \E t \in tasks, resp \in Responses : LoadBlendResp(t, resp)

Next ==
  \/ NextKnownIds
  \/ \E t \in tasks, resp \in Responses : MapResp(t, resp)

\* The callbacks of prefetchOtherUnits added, on a page where every switch
\* finds its unit's id in the in-process map.
NextPre ==
  \/ NextKnownIds
  \/ \E t \in tasks : PrefetchTimer(t)
  \/ \E t \in tasks, resp \in Responses : PreMapResp(t, resp)
  \/ \E t \in tasks, resp \in Responses : PfBlendResp(t, resp)

\* The environment of Spec: MaxSwitches clicks, one edit, no failed request,
\* a clock that stands still.
Init == InitWith([sw |-> MaxSwitches, ed |-> 1, fl |-> 0, tk |-> 0, sv |-> 0])
Spec == Init /\ [][Next]_vars

\* The environment of SpecEdit: one click, MaxEdits edits, no failed request,
\* MaxNow clock ticks.
InitEdit == InitWith([sw |-> 1, ed |-> MaxEdits, fl |-> 0, tk |-> MaxNow, sv |-> 0])
SpecEdit == InitEdit /\ [][Next]_vars

\* The environment of SpecNet: one click, one edit, MaxFails failed requests,
\* a clock that stands still.
InitNet == InitWith([sw |-> 1, ed |-> 1, fl |-> MaxFails, tk |-> 0, sv |-> 0])
SpecNet == InitNet /\ [][Next]_vars

\* The environment of SpecPre: a first visit, and the prefetch callbacks run;
\* one click, one edit, no failed request, a clock that stands still.
InitPre ==
  /\ InitWith([sw |-> 1, ed |-> 1, fl |-> 0, tk |-> 0, sv |-> 0])
  /\ lsCurrentUnit = 1
SpecPre == InitPre /\ [][NextPre]_vars

\* A first visit on which the user edits one field and clicks no unit
\* button, the prefetch callbacks run and the page stays open: the browser
\* runs the callback of every timeout that was set (line 138), so FlushFire
\* does not stay enabled for ever without being taken.
InitLive ==
  /\ InitWith([sw |-> 0, ed |-> 1, fl |-> 0, tk |-> 0, sv |-> 0])
  /\ lsCurrentUnit = 1
NextLive ==
  \/ DOMContentLoaded
  \/ Load
  \/ \E resp \in Responses : EnsureGet(resp)
  \/ \E resp \in Responses : EnsureInit(resp)
  \/ \E k \in EditKinds : EditMainField(k)
  \/ EditCapsField
  \/ DebounceFire
  \/ FlushFire
  \/ \E t \in tasks, resp \in Responses : BgBlendResp(t, resp)
  \/ \E t \in tasks, resp \in Responses : LoadBlendResp(t, resp)
  \/ \E t \in tasks : PrefetchTimer(t)
  \/ \E t \in tasks, resp \in Responses : PreMapResp(t, resp)
  \/ \E t \in tasks, resp \in Responses : PfBlendResp(t, resp)
SpecLive == InitLive /\ [][NextLive]_vars /\ WF_vars(FlushFire)

\* Calls of window.setCurrentUnit with any argument added, on a first visit
\* or a returning one; one call or click, one edit, no failed request, a
\* clock that stands still.
NextRaw ==
  \/ Next
  \/ \E raw \in RawArgs : SwitchRequest(raw)
InitRaw == InitWith([sw |-> 1, ed |-> 1, fl |-> 0, tk |-> 0, sv |-> 0])
SpecRaw == InitRaw /\ [][NextRaw]_vars

(***************************************************************************)
(* The coal field of collectFormData as a function: applied to a row with  *)
(* any select value and any hidden cell values.                            *)
(***************************************************************************)
CollectRow ==
  /\ coalField = NoField
  /\ Commit([Cur EXCEPT !.coalField = rowCoalField(Cur.row)])
  /\ UNCHANGED << pc, lim, srvUnits, srvBlend, nsw, fails, edits, nsv >>

InitCoal ==
  /\ InitPage([sw |-> 0, ed |-> 0, fl |-> 0, tk |-> 0, sv |-> 0],
              {[unit |-> 1, ids |-> NoIds, cache |-> [ok |-> TRUE, m |-> EmptyMap]]},
              {AllMapped})
  /\ coalRow \in [global : Coals, cells : [Mills -> Coals]]
  /\ coalField = NoField
NextCoal == CollectRow
SpecCoal == InitCoal /\ [][NextCoal]_vars

\* Clicks during which the snapshot throws added; one click, MaxEdits edits,
\* no failed request, MaxNow clock ticks.
NextSnap ==
  \/ Next
  \/ \E u \in Units : SwitchSnapshotThrows(u)
SpecSnap == InitEdit /\ [][NextSnap]_vars

\* The callbacks of line 248 added, on a first visit; one click, one edit, no
\* failed request, a clock that stands still.
NextAttach ==
  \/ NextKnownIds
  \/ AttachTimer
SpecAttach == InitPre /\ [][NextAttach]_vars

(***************************************************************************)
(* ensureServerUnitMapping as a function: called MaxCalls times in         *)
(* succession, every request answered with success, on any remote mapping  *)
(* and any fallback map.                                                   *)
(***************************************************************************)
MaxCalls == 2

\* The remote store maps any set of units, each to the id POST /units/init
\* would give it.
PartialMaps == { [k \in Keys |-> IF k \in S THEN k ELSE NoId] : S \in SUBSET Units }

\* An earlier visit left any selection, and a fallback map that holds other
\* ids for any set of units.
StoredIds ==
  { [unit |-> c,
     ids |-> [k \in Keys |-> IF k \in S THEN (k % MaxUnit) + 1 ELSE NoId],
     cache |-> [ok |-> TRUE, m |-> EmptyMap]] : c \in Units, S \in SUBSET Units }

\* ensureServerUnitMapping (lines 62-83) when GET /units and POST /units/init
\* succeed: the client after the call.
ensureServerUnitMapping(s) ==
  LET s1 == fetchServerUnitMap(s, "ok")
      map == fetchServerUnitMapResult("ok")
      createdMap == ServerInitUnits(srvUnits)
  IN IF \A u \in Units : map[u] # NoId
       THEN Returns(s1, map)
       ELSE Returns(unitsInitDone(s1, createdMap), createdMap)

\* One call; the remote store runs POST /units/init when the call sends it.
EnsureCall ==
  /\ pc = "script"
  /\ h.ens.n < MaxCalls
  /\ Commit(ensureServerUnitMapping(Cur))
  /\ IF \A u \in Units : srvUnits[u] # NoId
       THEN UNCHANGED << srvUnits, srvBlend >>
       ELSE /\ srvUnits' = ServerInitUnits(srvUnits)
            /\ srvBlend' = ServerInitBlend(srvUnits, srvBlend)
  /\ UNCHANGED << pc, lim, nsw, fails, edits, nsv >>

InitEnsure == InitFrom([sw |-> 0, ed |-> 0, fl |-> 0, tk |-> 0, sv |-> 0], StoredIds, PartialMaps)
NextEnsure == EnsureCall
SpecEnsure == InitEnsure /\ [][NextEnsure]_vars

(***************************************************************************)
(* Explicit save (input.js 737-816). The user saves again only once the    *)
(* alert of the previous save has been shown.                              *)
(***************************************************************************)
\* What the remote store keeps of a payload, and echoes when it echoes one.
Normalised(p) == [p EXCEPT !.ts = 0]

\* The id POST /blend gives the record it creates.
NewId ==
  CHOOSE i \in Ids \ Units :
    srvBlend[i] = None /\ \A j \in Ids \ Units : j < i => srvBlend[j] # None

WithoutSave(t) == [Cur EXCEPT !.saves = @ \ {t}]

\* saveToServer up to its first request (lines 737-762): the payload, the
\* fallback map and the unit are read now; with a cached id the record is
\* PUT at once, else getBlendIdForUnit requests GET /units. n tells the calls
\* apart: each call is an activation of its own, with its own locals.
saveToServer(s, n) ==
  LET id == getBlendIdCached(s, s.cu) IN
  [s EXCEPT !.saves = @ \cup {[n |-> n,
                               unit |-> s.cu,
                               payload |-> collectFormData(s.form, s.now),
                               ids |-> s.lsIds,
                               stage |-> IF id # NoId THEN "put" ELSE "map",
                               id |-> id,
                               cached |-> None]}]

\* A variant without the memory write of line 802.
saveToServerDoneDurableOnly(s, t) ==
  LET cache == readPayloadCache(s.lsP)
      s1 == writePayloadCache(s, [cache EXCEPT ![t.unit] = t.cached])
  IN [s1 EXCEPT !.alerted = "saved", !.h.saved = [unit |-> t.unit, cu |-> s.cu]]

\* A variant that writes under the unit active when the save completes.
saveToServerDoneUnderActiveUnit(s, t) ==
  LET cache == readPayloadCache(s.lsP)
      s1 == writePayloadCache(s, [cache EXCEPT ![s.cu] = t.cached])
  IN [s1 EXCEPT !.mem[s.cu] = t.cached, !.alerted = "saved",
                !.h.saved = [unit |-> t.unit, cu |-> s.cu]]

\* Lines 795-809: the payload, or the echoed one, is written under the unit
\* read at the click to the durable cache and to the memory tier, and the
\* user is told.
saveToServerDone(s, t) ==
  LET cache == readPayloadCache(s.lsP)
      s1 == writePayloadCache(s, [cache EXCEPT ![t.unit] = t.cached])
  IN [s1 EXCEPT !.mem[t.unit] = t.cached, !.alerted = "saved",
                !.h.saved = [unit |-> t.unit, cu |-> s.cu]]

\* The save button.
SaveClick ==
  /\ UserActs /\ nsv < lim.sv /\ saves = {}
  /\ nsv' = nsv + 1
  /\ \E d \in Advances : Step(saveToServer(Clock(Cur, d), nsv + 1))
  /\ UNCHANGED << pc, lim, srvUnits, srvBlend, nsw, fails, edits >>

\* The save button, clicked again while a save is in flight: nothing in
\* saveToServer (lines 737-816) keeps a second call from starting.
SaveClickOverlapping ==
  /\ UserActs /\ nsv < lim.sv /\ saves # {}
  /\ nsv' = nsv + 1
  /\ \E d \in Advances : Step(saveToServer(Clock(Cur, d), nsv + 1))
  /\ UNCHANGED << pc, lim, srvUnits, srvBlend, nsw, fails, edits >>

\* GET /units answers inside the getBlendIdForUnit of saveToServer: with an
\* id the record is PUT, without one a record is POSTed (lines 748-755).
SaveMapResp(t, resp) ==
  /\ t \in saves /\ t.stage = "map"
  /\ Net(resp = "ok")
  /\ LET s1 == fetchServerUnitMap(WithoutSave(t), resp)
         id == getBlendIdAfterFetch(s1, t.unit)
     IN Step([s1 EXCEPT !.saves = @ \cup {[t EXCEPT !.id = id,
                                                    !.stage = IF id # NoId THEN "put"
                                                                           ELSE "post"]}])
  /\ UNCHANGED << pc, lim, srvUnits, srvBlend, nsw, edits, nsv >>

\* A variant that completes the save after a POST without PUT /units/:unit.
saveToServerSentWithoutUnitPut(s, t, resp, id, data) ==
  CASE resp = "notok" -> [s EXCEPT !.alerted = "failed"]
    [] resp = "reject" -> [s EXCEPT !.alerted = "error"]
    [] OTHER ->
         saveToServerDone(IF t.stage = "put"
                            THEN s
                            ELSE [s EXCEPT !.lsIds = [t.ids EXCEPT ![t.unit] = id],
                                           !.h.created = @ \cup {t.unit}],
                          [t EXCEPT !.cached = data])

\* A variant that does not read the status of the answer.
saveToServerSentIgnoringStatus(s, t, resp, id, data) ==
  CASE resp = "reject" -> [s EXCEPT !.alerted = "error"]
    [] OTHER ->
         IF t.stage = "put" \/ resp = "notok"
           THEN saveToServerDone(s, [t EXCEPT !.cached = data])
           ELSE [s EXCEPT !.lsIds = [t.ids EXCEPT ![t.unit] = id],
                          !.saves = @ \cup {[t EXCEPT !.stage = "unitput", !.id = id,
                                                      !.cached = data]},
                          !.h.created = @ \cup {t.unit}]

\* PUT /blend/:id or POST /blend has answered (lines 763-784). A failure
\* alerts and ends the save. After a PUT the save completes; after a POST the
\* fallback map read at the click, with the new id, is written back and
\* PUT /units/:unit is requested.
saveToServerSent(s, t, resp, id, data) ==
  CASE resp = "notok" -> [s EXCEPT !.alerted = "failed"]
    [] resp = "reject" -> [s EXCEPT !.alerted = "error"]
    [] OTHER ->
         IF t.stage = "put"
           THEN saveToServerDone(s, [t EXCEPT !.cached = data])
           ELSE [s EXCEPT !.lsIds = [t.ids EXCEPT ![t.unit] = id],
                          !.saves = @ \cup {[t EXCEPT !.stage = "unitput", !.id = id,
                                                      !.cached = data]},
                          !.h.created = @ \cup {t.unit}]

\* PUT /blend/:id or POST /blend answers; the remote store may echo the
\* payload it kept.
SaveBlendResp(t, resp, echo) ==
  /\ t \in saves /\ t.stage \in {"put", "post"}
  /\ resp = "ok" => IF t.stage = "put" THEN srvBlend[t.id] # None
                                      ELSE \E i \in Ids \ Units : srvBlend[i] = None
  /\ resp # "ok" => ~echo
  /\ Net(resp = "ok")
  /\ LET id == IF t.stage = "put" THEN t.id ELSE NewId
         data == IF echo THEN Normalised(t.payload) ELSE t.payload
     IN /\ srvBlend' = IF resp = "ok" THEN [srvBlend EXCEPT ![id] = Normalised(t.payload)]
                                      ELSE srvBlend
        /\ Step(saveToServerSent(WithoutSave(t), t, resp, id, data))
  /\ UNCHANGED << pc, lim, srvUnits, nsw, edits, nsv >>

\* PUT /units/:unit answers (lines 778-790): its status is not read, and
\* GET /units follows unless the request rejected.
SaveUnitPutResp(t, resp) ==
  /\ t \in saves /\ t.stage = "unitput"
  /\ Net(resp = "ok")
  /\ srvUnits' = IF resp = "ok" THEN [srvUnits EXCEPT ![t.unit] = t.id] ELSE srvUnits
  /\ Step(IF resp = "reject"
            THEN saveToServerDone(WithoutSave(t), t)
            ELSE [WithoutSave(t) EXCEPT !.saves = @ \cup {[t EXCEPT !.stage = "refresh"]}])
  /\ UNCHANGED << pc, lim, srvBlend, nsw, edits, nsv >>

\* The GET /units of line 786 answers, and the save completes.
SaveRefreshResp(t, resp) ==
  /\ t \in saves /\ t.stage = "refresh"
  /\ Net(resp = "ok")
  /\ Step(saveToServerDone(fetchServerUnitMap(WithoutSave(t), resp), t))
  /\ UNCHANGED << pc, lim, srvUnits, srvBlend, nsw, edits, nsv >>

\* The page with its save button, the user editing nothing: what is saved is
\* what the page rendered.
NextSave ==
  \/ DOMContentLoaded
  \/ Load
  \/ \E resp \in Responses : EnsureGet(resp)
  \/ \E resp \in Responses : EnsureInit(resp)
  \/ \E u \in Units : Switch(u)
  \/ DebounceFire
  \/ FlushFire
  \/ \E t \in tasks, resp \in Responses : MapResp(t, resp)
  \/ \E t \in tasks, resp \in Responses : BgBlendResp(t, resp)
  \/ \E t \in tasks, resp \in Responses : LoadBlendResp(t, resp)
  \/ SaveClick
  \/ \E t \in saves, resp \in Responses : SaveMapResp(t, resp)
  \/ \E t \in saves, resp \in Responses, echo \in BOOLEAN : SaveBlendResp(t, resp, echo)
  \/ \E t \in saves, resp \in Responses : SaveUnitPutResp(t, resp)
  \/ \E t \in saves, resp \in Responses : SaveRefreshResp(t, resp)

\* The environment of SpecSave: a first visit; one click on a unit, no edit,
\* MaxSaves saves, one failed request, a clock that stands still.
InitSave ==
  /\ InitWith([sw |-> 1, ed |-> 0, fl |-> 1, tk |-> 0, sv |-> MaxSaves])
  /\ lsCurrentUnit = 1
SpecSave == InitSave /\ [][NextSave]_vars

\* Overlapping saves added, on a first visit where the user clicks no unit
\* button and no request fails; MaxSaves saves.
InitOverlap ==
  /\ InitWith([sw |-> 0, ed |-> 0, fl |-> 0, tk |-> 0, sv |-> MaxSaves])
  /\ lsCurrentUnit = 1
NextOverlap ==
  \/ DOMContentLoaded
  \/ Load
  \/ \E resp \in Responses : EnsureGet(resp)
  \/ \E resp \in Responses : EnsureInit(resp)
  \/ DebounceFire
  \/ FlushFire
  \/ \E t \in tasks, resp \in Responses : BgBlendResp(t, resp)
  \/ \E t \in tasks, resp \in Responses : LoadBlendResp(t, resp)
  \/ SaveClick
  \/ SaveClickOverlapping
  \/ \E t \in saves, resp \in Responses : SaveMapResp(t, resp)
  \/ \E t \in saves, resp \in Responses, echo \in BOOLEAN : SaveBlendResp(t, resp, echo)
  \/ \E t \in saves, resp \in Responses : SaveUnitPutResp(t, resp)
  \/ \E t \in saves, resp \in Responses : SaveRefreshResp(t, resp)
SpecOverlap == InitOverlap /\ [][NextOverlap]_vars

\* The environment of SpecBoot: the remote store maps unit 1 only, or no
\* unit; one click, one edit, two failed requests, a clock that stands still.
InitBoot == InitOf([sw |-> 1, ed |-> 1, fl |-> 2, tk |-> 0, sv |-> 0], {OnlyUnit1, NoIds})
SpecBoot == InitBoot /\ [][Next]_vars

(***************************************************************************)
(* Properties.                                                             *)
(***************************************************************************)
\* The step is a click on a unit button.
UserSwitch == nsw' = nsw + 1

\* The step delivers the answer of GET /blend/:id to the reconciliation t (the
\* backgroundFetch or the loadUnitData of a switch).
Reconciled(t) ==
  /\ t \in tasks /\ t \notin tasks'
  /\ t.kind \in {"bg", "load"} /\ t.stage = "blend"

\* The step delivers the answer of GET /units to the getBlendIdForUnit of t.
MapFetched(t) ==
  /\ t \in tasks /\ t \notin tasks'
  /\ t.kind \in {"bg", "load"} /\ t.stage = "map"

\* The step delivers the answer of a GET /units of ensureServerUnitMapping.
EnsureFetched == pc \in {"ensure_get", "ensure_refetch"} /\ pc' # pc

\* C1: a click on unit u directly followed by a click on the unit p just left
\* (no response, no timer in between) leaves the form showing, and the memory
\* entry of p holding, the payload snapshotted when p was left.
C1_RoundTripRestoresSnapshot ==
  [][ (UserSwitch /\ h.prev.valid /\ h.prev.from # currentUnit
                  /\ currentUnit' = h.prev.from)
        => /\ form' = FormOf(h.prev.snap)
           /\ mem'[h.prev.from] = h.prev.snap ]_vars

\* C2: the answer to a reconciliation fetch of unit u that arrives while
\* another unit is active leaves the form as it is.
C2_StaleReconciliationLeavesForm ==
  [][ \A t \in tasks :
        (Reconciled(t) /\ Clamp(t.unit) # currentUnit) => form' = form ]_vars

\* C3: right after the synchronous part of a click on unit u, the form shows
\* the memory entry of u if there is one (the snapshot just taken, when u was
\* already active), else the durable entry of u, which also seeds the memory
\* entry, else the form's rows, flows and generation are cleared.
C3_SwitchShowsMemoryThenDurable ==
  [][ UserSwitch =>
        LET u == currentUnit'
            m == IF u = currentUnit THEN collectFormData(form, now') ELSE mem[u]
            d == readPayloadCache(lsPayload)[u]
        IN IF m # None THEN form' = FormOf(m)
           ELSE IF d # None THEN mem'[u] = d /\ form' = FormOf(d)
           ELSE form'.main = 0 ]_vars

\* C4: when the answer to a reconciliation fetch of a switch is delivered (the
\* only step in which that fetch touches the form), the instant render of
\* that switch has already run, whether the fetch went through GET /units or
\* found the id in the in-process map.
C4_RenderPrecedesReconciliation ==
  [][ \A t \in tasks : Reconciled(t) => t.sw \in h.rendered ]_vars

\* A click's instant render has run, both its reconciliations have been
\* answered, and the form and both tiers hold the remote record.
C4_Witness ==
  /\ nsw = 3 /\ 3 \in h.rendered /\ currentUnit = 1
  /\ \A t \in tasks : t.sw = 3 => t.kind = "pre"
  /\ serverUnitMap[1] # NoId
  /\ mem[1] = srvBlend[serverUnitMap[1]]
  /\ form = FormOf(mem[1])
  /\ readPayloadCache(lsPayload)[1] = mem[1]

\* C5: a successful answer to a reconciliation fetch of the active unit whose
\* serialization differs from the memory entry overwrites the memory entry,
\* repopulates the form and schedules the deferred durable write; one whose
\* serialization equals the memory entry changes neither the form nor a tier.
C5_ReconciliationComparesFirst ==
  [][ \A t \in tasks :
        (Reconciled(t) /\ t.unit = currentUnit /\ fails' = fails) =>
          LET payload == srvBlend[t.id] IN
          IF Stringify(mem[t.unit]) # Stringify(payload)
            THEN /\ mem'[t.unit] = payload
                 /\ form' = FormOf(payload)
                 /\ flushH'
            ELSE /\ form' = form
                 /\ mem' = mem
                 /\ lsPayload' = lsPayload ]_vars

\* C6: at most one debounce timeout is pending; an edit event with the
\* listeners attached leaves exactly one pending and captures nothing; every
\* change of the form with the listeners attached (re)starts the timeout; and
\* the timeout's run is the one capture: it stores the form as it is then,
\* hence as the last event left it, and leaves no timeout pending.
C6_DebounceCapturesOnce ==
  [][ /\ debounceN' <= 1
      /\ (edits' = edits + 1 /\ attached) => (debounceN' = 1 /\ mem' = mem)
      /\ (form' # form /\ attached) => debounceN' = 1
      /\ debounceN' < debounceN =>
           /\ debounceN' = 0
           /\ form' = form
           /\ mem'[currentUnit] = collectFormData(form, now') ]_vars

\* Two edits in one burst before the page load, and the capture has run.
C6_Witness ==
  /\ pc = "script" /\ attached /\ edits = 2 /\ h.events = 2
  /\ debounceN = 0
  /\ mem[currentUnit] = collectFormData(form, now)
  /\ form # EmptyForm

\* C7: at most one flush timeout is pending, it is pending exactly while the
\* timer handle is set, and its run writes the whole memory tier, as it is at
\* that moment, to the durable cache and clears the handle.
C7_FlushCoalesces ==
  [][ /\ flushN' <= 1
      /\ flushH' <=> (flushN' = 1)
      /\ flushN' < flushN =>
           /\ flushN' = 0
           /\ mem' = mem
           /\ lsPayload' = [ok |-> TRUE, m |-> mem] ]_vars

\* Several calls fell into one window, and its one write has run.
C7_Witness ==
  /\ h.calls = 2 /\ flushN = 0 /\ ~flushH
  /\ lsPayload = [ok |-> TRUE, m |-> mem]
  /\ Cardinality({ k \in Keys : mem[k] # None }) >= 2

\* C8: every step that changes the durable payload cache is the timeout of
\* the deferred flush.
C8_DurableWrittenOnlyByFlush ==
  [][ lsPayload' # lsPayload => (flushN' < flushN /\ ~flushH') ]_vars

\* C9: a click's background fetch whose unit has an id in the in-process map
\* requests that record without requesting GET /units; otherwise it requests
\* GET /units once. When GET /units has answered, the caller goes on with the
\* id of the in-process map as it is then (a successful answer replaced it
\* by the remote map), else with the id of the local fallback map, and
\* without a request when neither has one.
C9_BlendIdPreference ==
  [][ /\ UserSwitch =>
           LET u == currentUnit'
               id == serverUnitMap[u]
               mine == { t \in tasks' : t.sw = nsw' /\ t.kind = "bg" }
           IN /\ serverUnitMap' = serverUnitMap
              /\ mine = { IF id # NoId THEN Task(nsw', "bg", u, "blend", id)
                                       ELSE Task(nsw', "bg", u, "map", NoId) }
      /\ \A t \in tasks : MapFetched(t) =>
           LET id == IF serverUnitMap'[t.unit] # NoId THEN serverUnitMap'[t.unit]
                                                      ELSE lsBlendIds'[t.unit]
               mine == { x \in tasks' : x.sw = t.sw /\ x.kind = t.kind }
           IN /\ fails' = fails => serverUnitMap' = srvUnits
              /\ mine = IF id # NoId THEN { Task(t.sw, t.kind, t.unit, "blend", id) }
                                     ELSE {} ]_vars

\* A record is requested with the id of the local fallback map, the
\* in-process map having none for the unit.
C9_Witness ==
  \E t \in tasks :
    /\ t.kind \in {"bg", "load"} /\ t.stage = "blend"
    /\ serverUnitMap[t.unit] = NoId
    /\ lsBlendIds[t.unit] = t.id

\* C10: a GET /units that fails, inside ensureServerUnitMapping or inside
\* getBlendIdForUnit, leaves the in-process map and the local fallback map as
\* they were, and its caller goes on: ensureServerUnitMapping, given the
\* empty map, to POST /units/init (or, from its second fetch, to the page's
\* first switch).
C10_FailedMapFetchChangesNothing ==
  [][ ( /\ fails' = fails + 1
        /\ \/ pc \in {"ensure_get", "ensure_refetch"}
           \/ \E t \in tasks : MapFetched(t) )
      => /\ serverUnitMap' = serverUnitMap
         /\ lsBlendIds' = lsBlendIds
         /\ pc = "ensure_get" => pc' = "ensure_init"
         /\ pc = "ensure_refetch" => pc' = "ready" ]_vars

\* The first GET /units failed although the remote store has the mapping:
\* the fallback map of the earlier visit is still there.
C10_Witness ==
  /\ pc = "ensure_init" /\ fails = 1
  /\ srvUnits = AllMapped
  /\ lsBlendIds = AllMapped
  /\ serverUnitMap = NoIds

\* C11: a GET /units that succeeds, inside ensureServerUnitMapping or inside
\* getBlendIdForUnit, leaves the local fallback map and the in-process map
\* both equal to the fetched map.
C11_FetchReplacesBothMaps ==
  [][ ( /\ fails' = fails
        /\ \/ EnsureFetched
           \/ \E t \in tasks : MapFetched(t) )
      => /\ lsBlendIds' = srvUnits
         /\ serverUnitMap' = srvUnits ]_vars

\* The fallback map of an earlier visit had an id for every unit, the remote
\* store has none, and the first fetch has succeeded: the ids are gone.
C11_Witness ==
  /\ pc = "ensure_init" /\ fails = 0
  /\ readPayloadCache(lsPayload)[2] = OldRecord(2)
  /\ srvUnits = NoIds
  /\ lsBlendIds = NoIds
  /\ serverUnitMap = NoIds

\* C12: when POST /units/init has failed, ensureServerUnitMapping returns to
\* the load handler, which goes on to the page's first switch, and what it
\* returns is the map of the last successful fetch, which the in-process map
\* holds.
C12_InitFailureReturnsLastFetch ==
  [][ ( \/ pc = "ensure_init" /\ pc' = "ready" /\ fails' = fails + 1
        \/ pc = "ensure_refetch" /\ pc' = "ready" )
      => /\ nsw' = 2
         /\ h'.ens.n = 1
         /\ h'.ens.ret = serverUnitMap' ]_vars

\* C13: when no request fails and POST /units/init is idempotent, a second
\* call of ensureServerUnitMapping leaves the fallback map and the in-process
\* map as the first call left them, and both calls return the same map, which
\* has an entry for each of the units 1, 2 and 3.
C13_SecondEnsureChangesNothing ==
  [][ (h.ens.n = 1 /\ h'.ens.n = 2)
      => /\ lsBlendIds' = lsBlendIds
         /\ serverUnitMap' = serverUnitMap
         /\ h'.ens.ret = h.ens.ret
         /\ \A u \in Units : h.ens.ret[u] # NoId ]_vars
C13_Witness ==
  /\ h.ens.n = 2
  /\ srvBlend[1] = SrvRecord(1)
  /\ srvBlend[2] = EmptyRecord
  /\ serverUnitMap = AllMapped
  /\ lsBlendIds = AllMapped

\* The client s, its durable cache replaced by what readPayloadCache makes of it.
Parsed(s) == [s EXCEPT !.lsP = [ok |-> TRUE, m |-> readPayloadCache(s.lsP)]]

\* C14: while the durable payload cache does not parse, loadUnitData does, for
\* every unit and every answer of the network, what it does on an empty
\* durable cache: the same form, tiers, maps, timers and requests result.
C14_CorruptCacheIsEmptyCache ==
  ~lsPayload.ok =>
    LET empty == [Cur EXCEPT !.lsP = [ok |-> TRUE, m |-> EmptyMap]] IN
    /\ \A unit \in Keys :
         Parsed(loadUnitData(Cur, unit, nsw)) = Parsed(loadUnitData(empty, unit, nsw))
    /\ \A t \in tasks :
         t.kind = "load" =>
           /\ Parsed(loadUnitDataNoId(Cur, t)) = Parsed(loadUnitDataNoId(empty, t))
           /\ t.stage = "blend" =>
                \A resp \in Responses :
                  Parsed(loadUnitDataDone(Cur, t, resp))
                    = Parsed(loadUnitDataDone(empty, t, resp))
C14_Witness ==
  /\ ~lsPayload.ok
  /\ pc = "ready"
  /\ \E t \in tasks : t.kind = "load" /\ t.stage = "blend" /\ srvBlend[t.id] # None

\* The user clicks unit 2 on another unit, while unit 2 has no remote mapping
\* and no payload in the memory tier or the durable tier.
SwitchToEmptyUnit2 ==
  /\ UserSwitch
  /\ currentUnit # 2 /\ currentUnit' = 2
  /\ srvUnits[2] = NoId /\ serverUnitMap[2] = NoId /\ lsBlendIds[2] = NoId
  /\ mem[2] = None /\ readPayloadCache(lsPayload)[2] = None

SaveAnswered(t) == t \in saves /\ t \notin saves'

\* C16: a save of a unit that has no id POSTs a record; the answer's id is
\* sent in PUT /units/:unit, the unit map is fetched again, and from then on
\* getBlendIdForUnit finds that id in the in-process map, without a request.
C16_FirstSaveCreatesAndMaps ==
  [][ \A t \in saves :
        (SaveAnswered(t) /\ fails' = fails) =>
          /\ (t.stage = "map" /\ srvUnits[t.unit] = NoId)
               => \E t2 \in saves' : t2.stage = "post" /\ t2.unit = t.unit
          /\ t.stage = "post"
               => \E t2 \in saves' :
                    /\ t2.stage = "unitput" /\ t2.unit = t.unit
                    /\ srvBlend[t2.id] = None
                    /\ srvBlend'[t2.id] = Normalised(t.payload)
          /\ t.stage = "unitput"
               => /\ srvUnits' = [srvUnits EXCEPT ![t.unit] = t.id]
                  /\ [t EXCEPT !.stage = "refresh"] \in saves'
          /\ (t.stage = "refresh" /\ srvUnits[t.unit] = t.id)
               => /\ saves' = {}
                  /\ serverUnitMap'[t.unit] = t.id ]_vars
C16_Witness ==
  /\ saves = {} /\ alerted = "saved" /\ fails = 0
  /\ h.saved.unit = 1 /\ 1 \in h.created
  /\ serverUnitMap[1] \in Ids \ Units
  /\ srvUnits[1] = serverUnitMap[1]

\* C17: once a save has created a record for a unit, no later save of that
\* unit POSTs: getBlendIdForUnit finds an id for it, whatever PUT /units/:unit
\* and the later fetches of the unit map answered.
C17_CreatedUnitIsNeverPostedAgain ==
  [][ \A t \in saves' :
        (t \notin saves /\ t.stage = "post") => t.unit \notin h.created ]_vars

\* C18: when a save completes, the durable entry and the memory entry of the
\* unit that was active at the click are equal, and are the payload sent or
\* the one the remote store echoed, whichever unit is active by then.
C18_SaveWritesBothTiers ==
  [][ \A t \in saves :
        (SaveAnswered(t) /\ saves' = {} /\ alerted' = "saved") =>
          /\ mem'[t.unit] = readPayloadCache(lsPayload')[t.unit]
          /\ mem'[t.unit] \in {t.payload, Normalised(t.payload)}
          /\ \A u \in Units \ {t.unit} :
               /\ mem'[u] = mem[u]
               /\ readPayloadCache(lsPayload')[u] = readPayloadCache(lsPayload)[u] ]_vars
C18_Witness ==
  /\ saves = {} /\ alerted = "saved"
  /\ h.saved = [unit |-> 1, cu |-> 2]
  /\ mem[1] = readPayloadCache(lsPayload)[1]
  /\ mem[1] # mem[2]

\* C19: when the PUT or POST of the payload answers a non-success status or
\* rejects, an alert is shown, the save ends, and the memory tier, the durable
\* tier, the fallback map and the in-process map are as they were.
C19_FailedSaveChangesNothing ==
  [][ \A t \in saves :
        (SaveAnswered(t) /\ t.stage \in {"put", "post"} /\ fails' = fails + 1) =>
          /\ alerted' \in {"failed", "error"}
          /\ saves' = {}
          /\ mem' = mem
          /\ lsPayload' = lsPayload
          /\ lsBlendIds' = lsBlendIds
          /\ serverUnitMap' = serverUnitMap
          /\ srvBlend' = srvBlend /\ srvUnits' = srvUnits ]_vars
C19_Witness ==
  /\ saves = {} /\ alerted \in {"failed", "error"} /\ fails = 1
  /\ nsv = 1 /\ h.saved.unit = 0
  /\ pc = "ready"

\* The step in which a request of a background operation (the reconciliation
\* of setCurrentUnitFast, loadUnitData, their fetch of the unit map) fails.
BackgroundFailure ==
  /\ fails' = fails + 1
  /\ \E t \in tasks : t \notin tasks'

\* C20: a background operation whose request fails shows no alert and leaves
\* the form, the memory tier, the durable tier and both maps as they were.
C20_BackgroundFailureChangesNothing ==
  [][ BackgroundFailure
      => /\ alerted' = alerted
         /\ form' = form
         /\ mem' = mem
         /\ lsPayload' = lsPayload
         /\ lsBlendIds' = lsBlendIds
         /\ serverUnitMap' = serverUnitMap ]_vars

\* The step delivers the answer of GET /blend/:id to the prefetch request t.
Prefetched(t) ==
  /\ t \in tasks /\ t \notin tasks'
  /\ t.kind = "pf" /\ t.stage = "blend"

\* C21: the answer to a prefetch request for a unit that is not the active
\* one sets that unit's memory entry to the fetched record and leaves a flush
\* timer pending; the form, the active unit, the other memory entries and the
\* durable cache stay as they were.
C21_PrefetchWritesOneMemoryEntry ==
  [][ \A t \in tasks :
        (Prefetched(t) /\ fails' = fails /\ t.unit # currentUnit) =>
          /\ mem' = [mem EXCEPT ![t.unit] = srvBlend[t.id]]
          /\ flushH'
          /\ form' = form
          /\ currentUnit' = currentUnit
          /\ lsCurrentUnit' = lsCurrentUnit
          /\ lsPayload' = lsPayload ]_vars
C21_Witness ==
  /\ nsw = 2 /\ currentUnit = 1
  /\ mem[2] = SrvRecord(2)
  /\ readPayloadCache(lsPayload)[2] = None
  /\ flushH
  /\ form.main = SrvMain(1)

\* C22: however often attachAutosaveListenersOnce runs (at DOMContentLoaded
\* and 120 ms after every switch), the capture listeners are added once, and
\* never more than one debounce timeout is pending.
C22_ListenersAttachedOnce ==
  /\ h.listeners = (IF attached THEN 1 ELSE 0)
  /\ debounceN <= 1
C22_Witness ==
  /\ nsw = 3 /\ attachN = 0
  /\ attached /\ h.listeners = 1
  /\ edits = 1 /\ debounceN = 1

C25_ClearResetsEverySnapshotField ==
  [][ ( /\ UserSwitch
        /\ currentUnit' # currentUnit
        /\ mem[currentUnit'] = None
        /\ readPayloadCache(lsPayload)[currentUnit'] = None )
      => FormOf(collectFormData(form', now')) = EmptyForm ]_vars

\* C26: every click on a unit button stores the form as it is, with the time
\* of the click, in the memory entry of the unit that was active before the
\* click; when taking the snapshot throws, that entry stays as it was; in
\* both cases the switch completes: the unit is selected, persisted and
\* rendered.
C26_SwitchSnapshotsTheLeftUnit ==
  [][ UserSwitch
      => /\ h'.prev.valid /\ h'.prev.from = currentUnit
         /\ ~h'.prev.threw => /\ mem'[currentUnit] = collectFormData(form, now')
                              /\ h'.prev.snap = mem'[currentUnit]
         /\ (h'.prev.threw /\ currentUnit' # currentUnit)
              => mem'[currentUnit] = mem[currentUnit]
         /\ currentUnit' \in Units /\ lsCurrentUnit' = currentUnit'
         /\ (nsw + 1) \in h'.rendered ]_vars
C26_Witness ==
  /\ nsw = 3 /\ h.prev.valid /\ ~h.prev.threw
  /\ h.prev.from = 1 /\ currentUnit = 2
  /\ mem[1].main = EditMain(2, 1) /\ mem[1].ts = 1 + MaxNow
  /\ mem[1] # mem[2]

\* C27: every step that writes the memory tier by an autosave capture, a
\* background reconciliation or a prefetch answer leaves a flush timer
\* pending, whether it set one or found one; and while the page stays open a
\* pending flush timer leads to a state where none is pending and the durable
\* payload cache holds every entry the memory tier holds then.
LoadAnswered == \E t \in tasks : t.kind = "load" /\ t \notin tasks'
C27_MemoryWriteReachesDurable ==
  /\ [][ (mem' # mem /\ ~LoadAnswered) => flushH' ]_vars
  /\ flushH ~> (~flushH /\ readPayloadCache(lsPayload) = mem)
C27_Witness ==
  /\ ~flushH /\ lsPayload.ok /\ lsPayload.m = mem
  /\ currentUnit = 1 /\ nsw = 2
  /\ mem[1].main = EditMain(1, 1)
  /\ mem[2] = srvBlend[srvUnits[2]] /\ mem[3] = srvBlend[srvUnits[3]]

\* C28: the answer to a prefetch request never replaces a memory entry that
\* exists when the answer arrives.
C28_PrefetchKeepsExistingEntry ==
  [][ \A t \in tasks :
        (Prefetched(t) /\ mem[t.unit] # None) => mem'[t.unit] = mem[t.unit] ]_vars

\* C29: whenever no flush timer is pending, the durable payload cache, read
\* as readPayloadCache reads it (one that does not parse counts as empty),
\* holds for every unit what the memory tier holds.
C29_TiersAgreeWithoutPendingFlush ==
  ~flushH => \A u \in Units : readPayloadCache(lsPayload)[u] = mem[u]

C29_Witness ==
  /\ ~flushH /\ saves = {} /\ alerted = "saved" /\ h.saved.unit = 1
  /\ currentUnit = 2 /\ \A t \in tasks : t.kind = "pre"
  /\ mem[1] # None /\ mem[2] # None /\ mem[1] # mem[2]
  /\ \A u \in Units : lsPayload.m[u] = mem[u]

\* C30: the memory entry of a unit holds only rows that were entered while
\* that unit was active or that come from that unit's own record and cache
\* entry (every such value names its unit in its last digit; 0 is the empty
\* form).
UnitOfMain(x) == x % 10
C30_MemoryEntryHoldsOwnContent ==
  \A u \in Units : mem[u].main # 0 => UnitOfMain(mem[u].main) = u

\* C31: while the user has edited nothing, a reconciliation that stores the
\* remote payload in the memory entry of the active unit arms no debounced
\* capture, and a memory entry of the active unit that holds the unit's
\* remote payload keeps it until the next switch request.
HoldsRemote(u) == srvUnits[u] # NoId /\ mem[u] = srvBlend[srvUnits[u]]
C31_RepopulationIsNotAnEdit ==
  /\ [][ \A t \in tasks :
           (/\ Reconciled(t) /\ t.unit = currentUnit
            /\ edits = 0 /\ debounceN = 0
            /\ mem'[currentUnit] = srvBlend[t.id] /\ form' # form)
           => debounceN' = 0 ]_vars
  /\ [][ (edits = 0 /\ edits' = 0 /\ nsw' = nsw /\ HoldsRemote(currentUnit))
           => mem'[currentUnit] = mem[currentUnit] ]_vars

\* C32: every request a switch has in flight (reconciliation, loadUnitData,
\* prefetch) is for a unit of 1..MaxUnit, the clamped unit that became
\* active, whatever argument the switch was called with; none is for the raw
\* value.
C32_SwitchEffectsTargetClampedUnit ==
  \A t \in tasks : t.unit \in Units

\* C33: two saves in flight at once never have each issued a POST /blend for
\* the same unit (a save is past its POST in the stages post, unitput and
\* refresh).
Posted(t) == t.stage \in {"post", "unitput", "refresh"}
C33_OverlappingSavesCreateOnce ==
  \A t1, t2 \in saves :
    (t1 # t2 /\ t1.unit = t2.unit) => ~(Posted(t1) /\ Posted(t2))

\* C34: when the page loads with a payload in the durable cache and in the
\* hydrated memory tier for the unit persisted as active, and the user has
\* done nothing yet, the first activation of the load handler does not store
\* a snapshot of the blank form for that unit, and after the handler the
\* form shows that payload.
PageActivates == pc # "ready" /\ pc' = "ready"
C34_ReloadKeepsCachedPayload ==
  [][ (/\ PageActivates /\ edits = 0 /\ nsv = 0
       /\ form = EmptyForm /\ currentUnit \in Units
       /\ mem[currentUnit] # None
       /\ readPayloadCache(lsPayload)[currentUnit] = mem[currentUnit])
      => /\ FormOf(h'.boot) # EmptyForm
         /\ form' = FormOf(mem[currentUnit]) ]_vars

====
